---- MODULE Spec2Model ----
(***************************************************************************)
(* CartGenie: the request orchestrator of the background service worker    *)
(* (src/extension/background.js).  One session per browser tab, kept in    *)
(* three Maps (loadingStates, analysisResults, analysisErrors); a badge    *)
(* per tab is the visual signal.  analyzeCart is an async function: its    *)
(* synchronous prefix runs inside the onMessage handler, and it resumes    *)
(* when fetch() settles and again when response.json() settles.            *)
(***************************************************************************)
EXTENDS Bags, FiniteSets, Integers, Sequences, TLC

\* ---------------------------------------------------------------- bounds
\* Number of browser tabs (tab ids are 1..MaxTabs).
MaxTabs == 2

Tabs == 1 .. MaxTabs
\* sender.tab?.id / tabs[0]?.id when there is no tab: a falsy tab id.
NoTab == 0

\* ------------------------------------------------------------- JS values
Undefined == [type |-> "undefined"]
Null == [type |-> "null"]
JsString(s) == [type |-> "string", str |-> s]
JsBool(b) == [type |-> "boolean", bool |-> b]
JsObject(fields) == [type |-> "object", value |-> fields]

\* String.prototype.includes
Includes(s, sub) ==
  \E i \in 1 .. (Len(s) - Len(sub) + 1) : SubSeq(s, i, i + Len(sub) - 1) = sub

\* Map.prototype.get / set / delete on a Map kept as a function on its keys.
MapGet(m, k) == IF k \in DOMAIN m THEN m[k] ELSE Undefined
MapSet(m, k, v) == [x \in (DOMAIN m) \cup {k} |-> IF x = k THEN v ELSE m[x]]
MapDelete(m, k) == [x \in (DOMAIN m) \ {k} |-> m[x]]
EmptyMap == [x \in {} |-> Undefined]

\* `if (v)` on what loadingStates.get returns: undefined and false are falsy.
Truthy(v) == v.type = "boolean" /\ v.bool

\* ------------------------------------------------------------ badge text
BadgeNone == ""
BadgeLoading == "..."
\* the check mark of background.js:95 (not representable in a TLA+ string)
BadgeSuccess == "check"
BadgeError == "!"
ColorDefault == ""
ColorLoading == "#ff007f"
ColorSuccess == "#28a745"
ColorError == "#dc3545"

VARIABLES
  loadingStates,    \* Map tabId -> loading status
  analysisResults,  \* Map tabId -> analysis result
  analysisErrors,   \* Map tabId -> error message
  badgeText,        \* chrome.action badge text of each tab
  badgeColor,       \* chrome.action badge background colour of each tab
  tasks,            \* bag of suspended analyzeCart invocations (calls in flight)
  lastEvent,        \* the event handled last: its type, its tab, its detail
                    \* (changeInfo.status, the snapshot given to sendResponse,
                    \* or what a content-script method returned) and the
                    \* snapshot of its tab's session when it arrived
  location,         \* window.location of the page the content script runs in
  document,         \* the page's DOM: body, injection targets, cart rows,
                    \* trigger controls and notifications
  cs,               \* the CartGenieContent instance of the page
  timers,           \* bag of pending setTimeout callbacks of the page
  outbox,           \* chrome.runtime.sendMessage messages not yet delivered
  calls             \* how often the page called tryInjectButton,
                    \* scrapeCartItems and chrome.runtime.sendMessage

pageVars == << location, document, cs, timers, outbox, calls >>

vars == << loadingStates, analysisResults, analysisErrors, badgeText, badgeColor,
           tasks, lastEvent, location, document, cs, timers, outbox, calls >>

session == << loadingStates, analysisResults, analysisErrors >>

\* ------------------------------------------------- the content script side
\* window.location.hostname of the cart pages the content script runs on.
Hostnames == {"www.amazon.in", "www.walmart.com"}

\* detectCurrency()
detectCurrency(hostname) == IF Includes(hostname, ".in") THEN "INR" ELSE "USD"

\* --------------------------------------------------- platform detection
\* window.location.href of a page served over https.
Href(loc) == "https://" \o loc.hostname \o loc.pathname

\* The object detectPlatform assigns to this.currentPlatform.  The selectors
\* of a platform are kept by its id: document.rows holds the elements the
\* container selector of the page's platform matches.
Platform(name, id, color) ==
  [type |-> "object", name |-> name, id |-> id, color |-> color]

\* The branches of detectPlatform in source order: the token looked for in
\* the hostname, the platform assigned, and the cart-path test on the url as
\* alternatives, each a set of tokens the url must all contain.
Adapters ==
  << [token |-> "amazon", paths |-> {{"/gp/cart"}, {"/cart"}},
      platform |-> Platform("Amazon", "amazon", "#ff9900")],
     [token |-> "flipkart", paths |-> {{"/viewcart"}, {"/cart"}},
      platform |-> Platform("Flipkart", "flipkart", "#2874f0")],
     [token |-> "bigbasket", paths |-> {{"/basket"}, {"/cart"}},
      platform |-> Platform("BigBasket", "bigbasket", "#84c225")],
     [token |-> "swiggy", paths |-> {{"/instamart", "/cart"}},
      platform |-> Platform("Swiggy Instamart", "swiggy", "#fc8019")],
     [token |-> "walmart", paths |-> {{"/cart"}},
      platform |-> Platform("Walmart", "walmart", "#0071ce")],
     [token |-> "target", paths |-> {{"/cart"}},
      platform |-> Platform("Target", "target", "#cc0000")] >>

\* The inner `if` of a branch: the url contains the cart path.
CartPath(adapter, url) ==
  \E alt \in adapter.paths : \A p \in alt : Includes(url, p)

\* The least element of a non-empty set of indices.
First(S) == CHOOSE i \in S : \A j \in S : i <= j

\* detectPlatform(): an else-if chain on the hostname.  The first branch
\* whose token the hostname contains is the only one entered; if the url
\* fails its cart-path test, this.currentPlatform keeps its value.
detectPlatform(currentPlatform, loc) ==
  LET entered == {i \in DOMAIN Adapters :
                    Includes(loc.hostname, Adapters[i].token)}
  IN  IF entered = {} THEN currentPlatform
      ELSE IF CartPath(Adapters[First(entered)], Href(loc))
             THEN Adapters[First(entered)].platform
             ELSE currentPlatform

\* -------------------------------------------------------- cart extraction
\* The character at a position of a string.
Char(s, i) == SubSeq(s, i, i)

\* White space (\s of a regular expression, what trim removes).
WhiteSpace == {" ", "\t", "\n"}

\* The rupee sign of content.js:364 (not representable in a TLA+ string).
RupeeSign == "#"

\* String.prototype.trim
RECURSIVE TrimStart(_)
TrimStart(s) ==
  IF s # "" /\ Char(s, 1) \in WhiteSpace
    THEN TrimStart(SubSeq(s, 2, Len(s))) ELSE s

RECURSIVE TrimEnd(_)
TrimEnd(s) ==
  IF s # "" /\ Char(s, Len(s)) \in WhiteSpace
    THEN TrimEnd(SubSeq(s, 1, Len(s) - 1)) ELSE s

Trim(s) == TrimEnd(TrimStart(s))

\* replace(/[...]/g, "") for a character class.
RECURSIVE RemoveAll(_, _)
RemoveAll(s, class) ==
  IF s = "" THEN ""
  ELSE (IF Char(s, 1) \in class THEN "" ELSE Char(s, 1))
       \o RemoveAll(SubSeq(s, 2, Len(s)), class)

\* JS numbers: NaN, an infinity, or a decimal  digits * 10^exp10.
NaN == [type |-> "number", kind |-> "NaN", neg |-> FALSE, digits |-> 0,
        exp10 |-> 0]
Infinity(neg) == [type |-> "number", kind |-> "Infinity", neg |-> neg,
                  digits |-> 0, exp10 |-> 0]
Finite(neg, digits, exp10) ==
  [type |-> "number", kind |-> "finite", neg |-> neg, digits |-> digits,
   exp10 |-> IF digits = 0 THEN 0 ELSE exp10]

DecimalDigits == {"0", "1", "2", "3", "4", "5", "6", "7", "8", "9"}

\* How many decimal digits a string has from a position on.
RECURSIVE DigitRun(_, _)
DigitRun(s, i) ==
  IF i <= Len(s) /\ Char(s, i) \in DecimalDigits
    THEN 1 + DigitRun(s, i + 1) ELSE 0

\* The number a string of decimal digits denotes (0 for the empty string).
RECURSIVE DigitsValue(_)
DigitsValue(s) ==
  IF s = "" THEN 0
  ELSE 10 * DigitsValue(SubSeq(s, 1, Len(s) - 1))
       + (CHOOSE n \in 0 .. 9 : ToString(n) = Char(s, Len(s)))

\* Rounding to a double: a decimal of 1e309 or more is an infinity, one
\* below 1e-324 is zero.  (Decimals between the largest double and 1e309 are
\* outside the texts the model parses.)
ToDouble(neg, digits, exp10) ==
  LET order == Len(ToString(digits)) + exp10
  IN  IF digits = 0 \/ order <= -324 THEN Finite(neg, 0, 0)
      ELSE IF order >= 310 THEN Infinity(neg)
      ELSE Finite(neg, digits, exp10)

\* parseFloat: skips leading white space, then reads the longest prefix that
\* is a decimal literal (sign, "Infinity" or digits with an optional fraction
\* and exponent); NaN if there is none.
parseFloat(string) ==
  LET s == TrimStart(string)
      signed == s # "" /\ Char(s, 1) \in {"+", "-"}
      neg == s # "" /\ Char(s, 1) = "-"
      b == IF signed THEN 2 ELSE 1
      ints == DigitRun(s, b)
      dot == b + ints <= Len(s) /\ Char(s, b + ints) = "."
      fracs == IF dot THEN DigitRun(s, b + ints + 1) ELSE 0
      e == b + ints + (IF dot THEN 1 + fracs ELSE 0)
      expSigned == e + 1 <= Len(s) /\ Char(s, e + 1) \in {"+", "-"}
      expNeg == e + 1 <= Len(s) /\ Char(s, e + 1) = "-"
      eb == IF expSigned THEN e + 2 ELSE e + 1
      exps == IF e <= Len(s) /\ Char(s, e) \in {"e", "E"}
                THEN DigitRun(s, eb) ELSE 0
      expValue == DigitsValue(SubSeq(s, eb, eb + exps - 1))
      mantissa == DigitsValue(SubSeq(s, b, b + ints - 1)
                              \o SubSeq(s, b + ints + 1, b + ints + fracs))
  IN  IF b + 7 <= Len(s) /\ SubSeq(s, b, b + 7) = "Infinity" THEN Infinity(neg)
      ELSE IF ints + fracs = 0 THEN NaN
      ELSE ToDouble(neg, mantissa,
                    (IF expNeg THEN 0 - expValue ELSE expValue) - fracs)

\* isNaN(x) and x > 0 on a number.
isNaN(x) == x.kind = "NaN"
GreaterThanZero(x) ==
  \/ x.kind = "Infinity" /\ ~ x.neg
  \/ x.kind = "finite" /\ ~ x.neg /\ x.digits > 0

\* One element the container selector matches: whether the title and price
\* selectors match inside it, and the textContent of what they match.
Row(titleElement, titleText, priceElement, priceText) ==
  [titleElement |-> titleElement, titleText |-> titleText,
   priceElement |-> priceElement, priceText |-> priceText]

\* titleElement.textContent?.trim()
TitleOf(row) == Trim(row.titleText)

\* parseFloat(priceElement.textContent?.replace(/[...]/g, "").trim())
PriceOf(row) ==
  parseFloat(Trim(RemoveAll(row.priceText,
                            {RupeeSign, "$", ","} \cup WhiteSpace)))

\* A row whose processing raises an exception inside the try block of the
\* forEach callback.
ThrowingRow(row) == row @@ [throws |-> TRUE]
Throws(row) == "throws" \in DOMAIN row

\* The body of the forEach callback: the items a row adds (one or none).  An
\* exception is caught in the callback and the row adds nothing.
scrapeRow(row, hostname) ==
  IF Throws(row) THEN << >>
  ELSE IF ~ row.titleElement \/ ~ row.priceElement THEN << >>
  ELSE LET productTitle == TitleOf(row)
           price == PriceOf(row)
       IN  IF productTitle # "" /\ ~ isNaN(price) /\ GreaterThanZero(price)
             THEN << [productTitle |-> productTitle, price |-> price,
                      quantity |-> 1, currency |-> detectCurrency(hostname)] >>
             ELSE << >>

\* Mutant: the exception of a row ends the extraction with no items.
RECURSIVE scrapeCartItems_AbortsOnThrow(_, _, _)
scrapeCartItems_AbortsOnThrow(currentPlatform, rows, hostname) ==
  IF currentPlatform = Null \/ rows = << >> THEN << >>
  ELSE IF \E i \in DOMAIN rows : Throws(rows[i]) THEN << >>
  ELSE scrapeCartItems_AbortsOnThrow(currentPlatform,
                                     SubSeq(rows, 1, Len(rows) - 1), hostname)
       \o scrapeRow(rows[Len(rows)], hostname)

\* Mutant: a row whose title an earlier item has is skipped.
RECURSIVE scrapeCartItems_Dedup(_, _, _)
scrapeCartItems_Dedup(currentPlatform, rows, hostname) ==
  IF currentPlatform = Null \/ rows = << >> THEN << >>
  ELSE LET items == scrapeCartItems_Dedup(currentPlatform,
                      SubSeq(rows, 1, Len(rows) - 1), hostname)
           added == scrapeRow(rows[Len(rows)], hostname)
       IN  IF added # << >>
              /\ \E i \in DOMAIN items :
                   items[i].productTitle = added[1].productTitle
             THEN items ELSE items \o added

\* scrapeCartItems(): the rows in document order, each adding to items.
RECURSIVE scrapeCartItems(_, _, _)
scrapeCartItems(currentPlatform, rows, hostname) ==
  IF currentPlatform = Null \/ rows = << >> THEN << >>
  ELSE scrapeCartItems(currentPlatform, SubSeq(rows, 1, Len(rows) - 1), hostname)
       \o scrapeRow(rows[Len(rows)], hostname)

\* ----------------------------------------------------- payloads in flight
\* The cart row of the pages whose requests reach the orchestrator.
SonyRow ==
  [titleElement |-> TRUE, titleText |-> " Sony WH-1000XM5 ",
   priceElement |-> TRUE, priceText |-> "#29,990"]

\* The payload handleAnalyzeClick sends: the page's hostname and the scraped
\* items (never an empty list).
SentPayload(hostname) ==
  [sourceRetailer |-> JsString(hostname),
   items |-> scrapeCartItems(
               detectPlatform(Null, [hostname |-> hostname, pathname |-> "/cart"]),
               << SonyRow >>, hostname)]

SentPayloads == {SentPayload(h) : h \in Hostnames}

\* The hostname of the cart page open in a tab: the content script of a tab
\* sends the hostname of its own page.
PageHostname(tabId) ==
  IF tabId % 2 = 1 THEN "www.amazon.in" ELSE "www.walmart.com"

\* The payloads a sender can put in an ANALYZE_CART message.
PayloadsFrom(tabId) ==
  IF tabId # NoTab THEN {SentPayload(PageHostname(tabId))} ELSE SentPayloads

\* ------------------------------------------------------ the page's state
\* The tab the modelled page is open in (sender.tab.id of its messages).
PageTab == 1

\* this.maxRetries
maxRetries == 5

\* new CartGenieContent()
Constructed ==
  [isInitialized |-> FALSE, currentPlatform |-> Null, retryCount |-> 0]

NoCalls ==
  [init |-> 0, tryInjectButton |-> 0, handleAnalyzeClick |-> 0,
   scrapeCartItems |-> 0, sendMessage |-> 0, rescheduled |-> 0]

\* A document that has no body yet.
BlankDocument ==
  [body |-> FALSE, targets |-> {}, rows |-> << >>, buttons |-> << >>,
   notifications |-> << >>]

\* No content script is running (the orchestrator on its own).
NoPage ==
  /\ location = [hostname |-> "", pathname |-> ""]
  /\ document = BlankDocument
  /\ cs = Constructed
  /\ timers = EmptyBag
  /\ outbox = << >>
  /\ calls = NoCalls

\* A step of the content script, with what the method returned.
PageEvent(type, detail) ==
  [type |-> type, tabId |-> PageTab, detail |-> detail, before |-> Undefined]

\* ------------------------------------------------ the optimization boundary
\* What fetch() can settle with: a rejection (network error) or a Response.
JsonBody(totalSavings) == [json |-> TRUE, totalSavings |-> totalSavings]
MalformedBody == [json |-> FALSE, totalSavings |-> 0]

FetchOutcomes ==
  {[rejected |-> TRUE, message |-> "Failed to fetch", status |-> 0,
    statusText |-> "", body |-> MalformedBody]}
  \cup {[rejected |-> FALSE, message |-> "", status |-> 200, statusText |-> "OK",
         body |-> b] : b \in {JsonBody(4000), JsonBody(1500), MalformedBody}}
  \cup {[rejected |-> FALSE, message |-> "", status |-> 500,
         statusText |-> "Internal Server Error", body |-> MalformedBody]}

\* Response.ok
ResponseOk(status) == status \in 200 .. 299

\* The message of the Error thrown for a non-2xx response.
StatusMessage(status, statusText) ==
  "API responded with status: " \o ToString(status) \o " - " \o statusText

\* response.json(): the parsed object, or a SyntaxError.
JsonParse(body) ==
  IF body.json
    THEN [ok |-> TRUE, value |-> JsObject([totalSavings |-> body.totalSavings]),
          message |-> ""]
    ELSE [ok |-> FALSE, value |-> Undefined,
          message |-> "Unexpected token < in JSON at position 0"]

\* ------------------------------------------------------------- analyzeCart
\* Mutant: the guard looks at the markers of all tabs.
AlreadyInProgress_AnyTab(tabId) ==
  \E t \in DOMAIN loadingStates : Truthy(loadingStates[t])

\* Mutant: the dedup guard is missing.
AlreadyInProgress_NoGuard(tabId) == FALSE

\* The dedup guard.
AlreadyInProgress(tabId) == Truthy(MapGet(loadingStates, tabId))

\* Mutant: the previous error is not cleared when a request starts.
ClearPrevious_KeepsError(tabId) ==
  /\ loadingStates' = MapSet(loadingStates, tabId, JsBool(TRUE))
  /\ analysisResults' = MapDelete(analysisResults, tabId)
  /\ UNCHANGED analysisErrors

\* Mutant: the previous result is not cleared when a request starts.
ClearPrevious_KeepsResult(tabId) ==
  /\ loadingStates' = MapSet(loadingStates, tabId, JsBool(TRUE))
  /\ UNCHANGED analysisResults
  /\ analysisErrors' = MapDelete(analysisErrors, tabId)

\* Mutant: a request starts without clearing what the previous one stored.
ClearPrevious_OnlyMarks(tabId) ==
  /\ loadingStates' = MapSet(loadingStates, tabId, JsBool(TRUE))
  /\ UNCHANGED << analysisResults, analysisErrors >>

\* Initialize loading state and clear previous results.
ClearPrevious(tabId) ==
  /\ loadingStates' = MapSet(loadingStates, tabId, JsBool(TRUE))
  /\ analysisResults' = MapDelete(analysisResults, tabId)
  /\ analysisErrors' = MapDelete(analysisErrors, tabId)

\* cartData.sourceRetailer.includes(...) throws a TypeError, outside the try
\* block, when sourceRetailer is not a string.
ContextThrows(cartData) == cartData.sourceRetailer.type # "string"

\* Mutant: the postal code does not follow the retailer's domain.
UserContext_FixedPostalCode(cartData) ==
  [country |-> IF Includes(cartData.sourceRetailer.str, ".in") THEN "IN" ELSE "US",
   postalCode |-> "90210"]

\* Determine user context based on retailer domain.
UserContext(cartData) ==
  [country |-> IF Includes(cartData.sourceRetailer.str, ".in") THEN "IN" ELSE "US",
   postalCode |-> IF Includes(cartData.sourceRetailer.str, ".in")
                    THEN "560001" ELSE "90210"]

Payload(cartData) ==
  [userContext |-> UserContext(cartData),
   sourceRetailer |-> cartData.sourceRetailer.str,
   items |-> cartData.items]

\* An invocation of analyzeCart suspended at an await.
Task(tabId, pc, payload, body) ==
  [tabId |-> tabId, pc |-> pc, payload |-> payload, body |-> body]

\* Mutant: the invocation goes on without issuing the call.
IssueFetch_NoCall(tabId, payload) == UNCHANGED tasks

\* await fetch(API_ENDPOINT, ...): the call is issued and the invocation suspends.
IssueFetch(tabId, payload) ==
  tasks' = tasks (+) SetToBag({Task(tabId, "fetch", payload, MalformedBody)})

\* Mutant: a request that arrives while one is in progress resets the marker.
analyzeCart_IgnoredResetsMarker(cartData, tabId) ==
  IF AlreadyInProgress(tabId)
    THEN /\ loadingStates' = MapSet(loadingStates, tabId, JsBool(FALSE))
         /\ UNCHANGED << analysisResults, analysisErrors, tasks >>
    ELSE /\ ClearPrevious(tabId)
         /\ IF ContextThrows(cartData)
              THEN UNCHANGED tasks
              ELSE IssueFetch(tabId, Payload(cartData))

\* The synchronous prefix of analyzeCart, up to its first await.
analyzeCart(cartData, tabId) ==
  IF AlreadyInProgress(tabId)
    THEN UNCHANGED << session, tasks >>
    ELSE /\ ClearPrevious(tabId)
         /\ IF ContextThrows(cartData)
              THEN UNCHANGED tasks
              ELSE IssueFetch(tabId, Payload(cartData))

\* Mutant: the parsed result is not stored.
OnSuccess_NoStore(tabId, result) ==
  /\ badgeText' = [badgeText EXCEPT ![tabId] = BadgeSuccess]
  /\ badgeColor' = [badgeColor EXCEPT ![tabId] = ColorSuccess]
  /\ UNCHANGED << analysisResults, analysisErrors >>

\* Parse and store successful results, update the badge to show success.
OnSuccess(tabId, result) ==
  /\ analysisResults' = MapSet(analysisResults, tabId, result)
  /\ badgeText' = [badgeText EXCEPT ![tabId] = BadgeSuccess]
  /\ badgeColor' = [badgeColor EXCEPT ![tabId] = ColorSuccess]
  /\ UNCHANGED analysisErrors

\* Mutant: the error message is not stored.
OnCatch_NoStore(tabId, message) ==
  /\ badgeText' = [badgeText EXCEPT ![tabId] = BadgeError]
  /\ badgeColor' = [badgeColor EXCEPT ![tabId] = ColorError]
  /\ UNCHANGED << analysisResults, analysisErrors >>

\* Mutant: the catch block shows the success badge.
OnCatch_SuccessBadge(tabId, message) ==
  /\ analysisErrors' = MapSet(analysisErrors, tabId, JsString(message))
  /\ badgeText' = [badgeText EXCEPT ![tabId] = BadgeSuccess]
  /\ badgeColor' = [badgeColor EXCEPT ![tabId] = ColorSuccess]
  /\ UNCHANGED analysisResults

\* The catch block: store the error, update the badge to show error.
OnCatch(tabId, message) ==
  /\ analysisErrors' = MapSet(analysisErrors, tabId, JsString(message))
  /\ badgeText' = [badgeText EXCEPT ![tabId] = BadgeError]
  /\ badgeColor' = [badgeColor EXCEPT ![tabId] = ColorError]
  /\ UNCHANGED analysisResults

\* Mutant: the in-flight marker is not cleared.
Finally_Skip(tabId) == UNCHANGED loadingStates

\* Mutant: the in-flight marker of every session is cleared.
Finally_ClearsAll(tabId) ==
  loadingStates' = [x \in (DOMAIN loadingStates) \cup {tabId} |-> JsBool(FALSE)]

\* The finally block.
Finally(tabId) == loadingStates' = MapSet(loadingStates, tabId, JsBool(FALSE))

\* ---------------------------------------------------------------- actions
\* Mutant: a session without a loading entry is reported as loading.
querySession_MissingIsLoading(tabId) ==
  IF tabId # NoTab
    THEN [isLoading |-> MapGet(loadingStates, tabId) # JsBool(FALSE),
          result |-> MapGet(analysisResults, tabId),
          error |-> MapGet(analysisErrors, tabId)]
    ELSE [isLoading |-> FALSE, result |-> Null,
          error |-> JsString("No active tab")]

\* The snapshot the GET_ANALYSIS_RESULT callback builds for the active tab.
querySession(tabId) ==
  IF tabId # NoTab
    THEN [isLoading |-> Truthy(MapGet(loadingStates, tabId)),
          result |-> MapGet(analysisResults, tabId),
          error |-> MapGet(analysisErrors, tabId)]
    ELSE [isLoading |-> FALSE, result |-> Null,
          error |-> JsString("No active tab")]

\* The record kept of an event: `before` is the snapshot of the event's tab
\* at the moment the event arrived.
Event(type, tabId, detail) ==
  [type |-> type, tabId |-> tabId, detail |-> detail,
   before |-> IF tabId # NoTab THEN querySession(tabId) ELSE Undefined]

\* chrome.runtime.onMessage, request.type === "ANALYZE_CART"
OnAnalyzeCartMessage(cartData, tabId) ==
  /\ IF tabId # NoTab
       THEN /\ analyzeCart(cartData, tabId)
            /\ badgeText' = [badgeText EXCEPT ![tabId] = BadgeLoading]
            /\ badgeColor' = [badgeColor EXCEPT ![tabId] = ColorLoading]
       ELSE UNCHANGED << session, tasks, badgeText, badgeColor >>
  /\ lastEvent' = Event("ANALYZE_CART", tabId, "")

\* Mutant: a rejected fetch is retried (the call is issued again) instead of
\* reaching the catch block.
FetchSettled_RetriesOnReject(task, outcome) ==
  /\ task \in BagToSet(tasks)
  /\ task.pc = "fetch"
  /\ IF outcome.rejected
       THEN UNCHANGED << session, badgeText, badgeColor, tasks >>
       ELSE IF ~ ResponseOk(outcome.status)
         THEN /\ OnCatch(task.tabId,
                         StatusMessage(outcome.status, outcome.statusText))
              /\ Finally(task.tabId)
              /\ tasks' = tasks (-) SetToBag({task})
         ELSE /\ tasks' = (tasks (-) SetToBag({task}))
                            (+) SetToBag({Task(task.tabId, "json", task.payload,
                                               outcome.body)})
              /\ UNCHANGED << session, badgeText, badgeColor >>
  /\ lastEvent' = Event("fetchSettled", task.tabId, "")

\* analyzeCart resumes after `await fetch(...)`.
FetchSettled(task, outcome) ==
  /\ task \in BagToSet(tasks)
  /\ task.pc = "fetch"
  /\ IF outcome.rejected
       THEN /\ OnCatch(task.tabId, outcome.message)
            /\ Finally(task.tabId)
            /\ tasks' = tasks (-) SetToBag({task})
       ELSE IF ~ ResponseOk(outcome.status)
         THEN /\ OnCatch(task.tabId,
                         StatusMessage(outcome.status, outcome.statusText))
              /\ Finally(task.tabId)
              /\ tasks' = tasks (-) SetToBag({task})
         ELSE /\ tasks' = (tasks (-) SetToBag({task}))
                            (+) SetToBag({Task(task.tabId, "json", task.payload,
                                               outcome.body)})
              /\ UNCHANGED << session, badgeText, badgeColor >>
  /\ lastEvent' = Event("fetchSettled", task.tabId, "")

\* analyzeCart resumes after `await response.json()`.
JsonSettled(task) ==
  /\ task \in BagToSet(tasks)
  /\ task.pc = "json"
  /\ IF JsonParse(task.body).ok
       THEN OnSuccess(task.tabId, JsonParse(task.body).value)
       ELSE OnCatch(task.tabId, JsonParse(task.body).message)
  /\ Finally(task.tabId)
  /\ tasks' = tasks (-) SetToBag({task})
  /\ lastEvent' = Event("jsonSettled", task.tabId, "")

\* Mutant: the query removes the result it reports.
OnGetAnalysisResult_ConsumesResult(tabId) ==
  /\ lastEvent' = Event("GET_ANALYSIS_RESULT", tabId, querySession(tabId))
  /\ analysisResults' = MapDelete(analysisResults, tabId)
  /\ UNCHANGED << loadingStates, analysisErrors, badgeText, badgeColor, tasks >>

\* Mutant: the query creates the loading entry of the tab it reads.
OnGetAnalysisResult_CreatesEntry(tabId) ==
  /\ lastEvent' = Event("GET_ANALYSIS_RESULT", tabId, querySession(tabId))
  /\ loadingStates' =
       IF tabId # NoTab /\ tabId \notin DOMAIN loadingStates
         THEN MapSet(loadingStates, tabId, JsBool(FALSE))
         ELSE loadingStates
  /\ UNCHANGED << analysisResults, analysisErrors, badgeText, badgeColor, tasks >>

\* chrome.runtime.onMessage, request.type === "GET_ANALYSIS_RESULT": the
\* chrome.tabs.query callback, tabId being the id of the active tab.
OnGetAnalysisResult(tabId) ==
  /\ lastEvent' = Event("GET_ANALYSIS_RESULT", tabId, querySession(tabId))
  /\ UNCHANGED << session, badgeText, badgeColor, tasks >>

\* Mutant: a completed navigation resets the session of the tab.
OnTabUpdated_ResetsSession(tabId, status) ==
  /\ IF status = "complete"
       THEN /\ badgeText' = [badgeText EXCEPT ![tabId] = BadgeNone]
            /\ analysisResults' = MapDelete(analysisResults, tabId)
            /\ analysisErrors' = MapDelete(analysisErrors, tabId)
       ELSE UNCHANGED << badgeText, analysisResults, analysisErrors >>
  /\ lastEvent' = Event("onUpdated", tabId, status)
  /\ UNCHANGED << loadingStates, badgeColor, tasks >>

\* Mutant: a completed navigation also drops the stored result.
OnTabUpdated_DropsResult(tabId, status) ==
  /\ IF status = "complete"
       THEN /\ badgeText' = [badgeText EXCEPT ![tabId] = BadgeNone]
            /\ analysisResults' = MapDelete(analysisResults, tabId)
       ELSE UNCHANGED << badgeText, analysisResults >>
  /\ lastEvent' = Event("onUpdated", tabId, status)
  /\ UNCHANGED << loadingStates, analysisErrors, badgeColor, tasks >>

\* chrome.tabs.onUpdated
OnTabUpdated(tabId, status) ==
  /\ IF status = "complete"
       THEN badgeText' = [badgeText EXCEPT ![tabId] = BadgeNone]
       ELSE UNCHANGED badgeText
  /\ lastEvent' = Event("onUpdated", tabId, status)
  /\ UNCHANGED << session, badgeColor, tasks >>

InitBackground ==
  /\ loadingStates = EmptyMap
  /\ analysisResults = EmptyMap
  /\ analysisErrors = EmptyMap
  /\ badgeText = [t \in Tabs |-> BadgeNone]
  /\ badgeColor = [t \in Tabs |-> ColorDefault]
  /\ tasks = EmptyBag
  /\ lastEvent = [type |-> "start", tabId |-> NoTab, detail |-> "",
                  before |-> Undefined]

Init == InitBackground /\ NoPage

AnalyzeCartMessage ==
  /\ \E tabId \in Tabs \cup {NoTab} :
       \E cartData \in PayloadsFrom(tabId) : OnAnalyzeCartMessage(cartData, tabId)
  /\ UNCHANGED pageVars

FetchSettles ==
  /\ \E task \in BagToSet(tasks), outcome \in FetchOutcomes :
       FetchSettled(task, outcome)
  /\ UNCHANGED pageVars

JsonSettles ==
  /\ \E task \in BagToSet(tasks) : JsonSettled(task)
  /\ UNCHANGED pageVars

GetAnalysisResult ==
  /\ \E tabId \in Tabs \cup {NoTab} : OnGetAnalysisResult(tabId)
  /\ UNCHANGED pageVars

TabUpdated ==
  /\ \E tabId \in Tabs, status \in {"loading", "complete"} :
       OnTabUpdated(tabId, status)
  /\ UNCHANGED pageVars

Next ==
  \/ AnalyzeCartMessage
  \/ FetchSettles
  \/ JsonSettles
  \/ GetAnalysisResult
  \/ TabUpdated

Spec == Init /\ [][Next]_vars

\* ------------------------------------------------ calls that do resolve
\* The network call of a tab resolves: analyzeCart resumes after an await.
Resolves(t) ==
  /\ \/ \E task \in BagToSet(tasks), outcome \in FetchOutcomes :
          task.tabId = t /\ FetchSettled(task, outcome)
     \/ \E task \in BagToSet(tasks) : task.tabId = t /\ JsonSettled(task)
  /\ UNCHANGED pageVars

\* The orchestrator with a network in which every call issued resolves.
SpecLive == Init /\ [][Next]_vars /\ \A t \in Tabs : WF_vars(Resolves(t))

\* --------------------------------------- the listener with any payload
\* An ANALYZE_CART message whose payload has no sourceRetailer: the listener
\* hands request.payload to analyzeCart as it comes, whoever sent it.
PayloadWithoutRetailer ==
  [sourceRetailer |-> Undefined, items |-> SentPayload("www.amazon.in").items]

\* The payloads the listener can be given.
AnyPayloads(tabId) == PayloadsFrom(tabId) \cup {PayloadWithoutRetailer}

AnyAnalyzeCartMessage ==
  /\ \E tabId \in Tabs \cup {NoTab} :
       \E cartData \in AnyPayloads(tabId) : OnAnalyzeCartMessage(cartData, tabId)
  /\ UNCHANGED pageVars

NextAnyPayload ==
  \/ AnyAnalyzeCartMessage
  \/ FetchSettles
  \/ JsonSettles
  \/ GetAnalysisResult
  \/ TabUpdated

\* The orchestrator as a message listener, fed every payload it accepts.
SpecAnyPayload == Init /\ [][NextAnyPayload]_vars

\* ------------------------------------------------------ button injection
\* The delays given to setTimeout: the injection retry, the button reset and
\* the removal of a notification.
RetryDelay == 1000
ResetDelay == 2000
NotificationDelay == 3000

\* A pending setTimeout callback.
Timer(callback, delay) == [callback |-> callback, delay |-> delay]

RetryTimer == Timer("waitForPageAndInject", RetryDelay)

\* document.body as an injection point (the targets are numbered 1 to 6 in
\* the order of the `targets` array).
Body == 0

\* Mutant: the loop over the selectors does not stop at the first match.
InjectionTarget_LastMatch(doc) ==
  IF doc.targets # {}
    THEN CHOOSE i \in doc.targets : \A j \in doc.targets : j <= i
    ELSE Body

\* The element the button goes to: what the first matching selector of the
\* `targets` array finds, else document.body.
InjectionTarget(doc) ==
  IF doc.targets # {} THEN First(doc.targets) ELSE Body

\* Mutant: there is no fallback to document.body.
InjectionThrows_WithoutAnchor(doc, currentPlatform) ==
  \/ currentPlatform = Null
  \/ doc.targets = {}

\* What makes the try block throw: appendChild on a null document.body, or
\* the colour read of createAnalyzeButton on a null currentPlatform.
InjectionThrows(doc, currentPlatform) ==
  \/ currentPlatform = Null
  \/ doc.targets = {} /\ ~ doc.body

\* Mutant: the check for an existing button is missing.
tryInjectButton_NoExistenceCheck(doc, currentPlatform) ==
  IF InjectionThrows(doc, currentPlatform)
    THEN [success |-> FALSE, document |-> doc]
    ELSE [success |-> TRUE,
          document |-> [doc EXCEPT !.buttons =
                          Append(@, [parent |-> InjectionTarget(doc),
                                     disabled |-> FALSE])]]

\* tryInjectButton(): what it returns and the document it leaves.
tryInjectButton(doc, currentPlatform) ==
  IF doc.buttons # << >> THEN [success |-> TRUE, document |-> doc]
  ELSE IF InjectionThrows(doc, currentPlatform)
    THEN [success |-> FALSE, document |-> doc]
    ELSE [success |-> TRUE,
          document |-> [doc EXCEPT !.buttons =
                          Append(@, [parent |-> InjectionTarget(doc),
                                     disabled |-> FALSE])]]

\* Mutant: the budget test lets one more attempt through.
waitForPageAndInject_OneMore(c, doc, pending) ==
  IF c.retryCount > maxRetries
    THEN [cs |-> c, document |-> doc, timers |-> pending, attempts |-> 0,
          outcome |-> "gave up"]
    ELSE LET try == tryInjectButton(doc, c.currentPlatform)
         IN  IF try.success
               THEN [cs |-> c, document |-> try.document, timers |-> pending,
                     attempts |-> 1, outcome |-> "injected"]
               ELSE [cs |-> [c EXCEPT !.retryCount = @ + 1], document |-> doc,
                     timers |-> pending (+) SetToBag({RetryTimer}),
                     attempts |-> 1, outcome |-> "retry"]

\* waitForPageAndInject() on an instance c, a document and the timers
\* pending when it is called: the instance, document and timers it leaves,
\* how many injection attempts it made and how it ended.
waitForPageAndInject(c, doc, pending) ==
  IF c.retryCount >= maxRetries
    THEN [cs |-> c, document |-> doc, timers |-> pending, attempts |-> 0,
          outcome |-> "gave up"]
    ELSE LET try == tryInjectButton(doc, c.currentPlatform)
         IN  IF try.success
               THEN [cs |-> c, document |-> try.document, timers |-> pending,
                     attempts |-> 1, outcome |-> "injected"]
               ELSE [cs |-> [c EXCEPT !.retryCount = @ + 1], document |-> doc,
                     timers |-> pending (+) SetToBag({RetryTimer}),
                     attempts |-> 1, outcome |-> "retry"]

\* The state a call of waitForPageAndInject leaves, as an action.
Scheduled(run, type, counted) ==
  /\ cs' = run.cs
  /\ document' = run.document
  /\ timers' = run.timers
  /\ calls' = [counted EXCEPT !.tryInjectButton = @ + run.attempts]
  /\ lastEvent' = PageEvent(type, run.outcome)

\* Mutant: init goes on to the injection when no platform was detected.
init_NoEarlyReturn ==
  /\ calls.init = 0
  /\ LET platform == detectPlatform(cs.currentPlatform, location)
         run == waitForPageAndInject([cs EXCEPT !.currentPlatform = platform],
                                     document, timers)
     IN  /\ cs' = [run.cs EXCEPT !.isInitialized = TRUE]
         /\ document' = run.document
         /\ timers' = run.timers
         /\ calls' = [calls EXCEPT !.init = 1,
                                   !.tryInjectButton = @ + run.attempts]
         /\ lastEvent' = PageEvent("init", run.outcome)
  /\ UNCHANGED << session, badgeText, badgeColor, tasks, location, outbox >>

\* new CartGenieContent().init(): detectPlatform, then, on a supported cart
\* page only, the first call of waitForPageAndInject.
init ==
  /\ calls.init = 0
  /\ LET platform == detectPlatform(cs.currentPlatform, location)
         run == waitForPageAndInject([cs EXCEPT !.currentPlatform = platform],
                                     document, timers)
     IN  IF platform = Null
           THEN /\ cs' = [cs EXCEPT !.currentPlatform = platform]
                /\ calls' = [calls EXCEPT !.init = 1]
                /\ lastEvent' = PageEvent("init", "unsupported")
                /\ UNCHANGED << document, timers >>
           ELSE /\ cs' = [run.cs EXCEPT !.isInitialized = TRUE]
                /\ document' = run.document
                /\ timers' = run.timers
                /\ calls' = [calls EXCEPT !.init = 1,
                                          !.tryInjectButton = @ + run.attempts]
                /\ lastEvent' = PageEvent("init", run.outcome)
  /\ UNCHANGED << session, badgeText, badgeColor, tasks, location, outbox >>

\* The callback of the retry timer: waitForPageAndInject again.
RetryTimerFires ==
  /\ BagIn(RetryTimer, timers)
  /\ Scheduled(waitForPageAndInject(cs, document,
                                    timers (-) SetToBag({RetryTimer})),
               "retryTimer", calls)
  /\ UNCHANGED << session, badgeText, badgeColor, tasks, location, outbox >>

\* ---------------------------------------------------- the analyze click
\* How many clicks on the button a page load sees.
MaxClicks == 2

\* The div showNotification appends to document.body.
Notification(message, type) == [message |-> message, type |-> type]

\* The ANALYZE_CART message of handleAnalyzeClick.
AnalyzeCartRequest(hostname, items) ==
  [type |-> "ANALYZE_CART",
   payload |-> [sourceRetailer |-> JsString(hostname), items |-> items]]

\* Mutant: the message is sent whatever the number of scraped items.
handleAnalyzeClick_NoEmptyCheck(button) ==
  LET items == scrapeCartItems(cs.currentPlatform, document.rows,
                               location.hostname)
  IN  /\ outbox' = Append(outbox, AnalyzeCartRequest(location.hostname, items))
      /\ document' = [document EXCEPT
           !.buttons[button].disabled = TRUE,
           !.notifications = Append(@, Notification(
              "Analyzing " \o ToString(Len(items)) \o " items...", "info"))]
      /\ calls' = [calls EXCEPT !.handleAnalyzeClick = @ + 1,
                                !.scrapeCartItems = @ + 1,
                                !.sendMessage = @ + 1]
      /\ timers' = timers (+) SetToBag({Timer("resetButton", ResetDelay)})
                          (+) SetToBag({Timer("removeNotification",
                                              NotificationDelay)})
      /\ lastEvent' = PageEvent("click", items)
      /\ UNCHANGED << session, badgeText, badgeColor, tasks, location, cs >>

\* handleAnalyzeClick(button): the button is disabled and the cart scraped;
\* with no items an error notification is shown and nothing is sent,
\* otherwise the request is sent and an info notification shown; the
\* `finally` block sets the timer that resets the button.
handleAnalyzeClick(button) ==
  LET items == scrapeCartItems(cs.currentPlatform, document.rows,
                               location.hostname)
  IN  /\ IF items = << >>
           THEN /\ UNCHANGED outbox
                /\ document' = [document EXCEPT
                     !.buttons[button].disabled = TRUE,
                     !.notifications = Append(@, Notification(
                        "No items found in cart", "error"))]
                /\ calls' = [calls EXCEPT !.handleAnalyzeClick = @ + 1,
                                          !.scrapeCartItems = @ + 1]
           ELSE /\ outbox' = Append(outbox,
                               AnalyzeCartRequest(location.hostname, items))
                /\ document' = [document EXCEPT
                     !.buttons[button].disabled = TRUE,
                     !.notifications = Append(@, Notification(
                        "Analyzing " \o ToString(Len(items)) \o " items...",
                        "info"))]
                /\ calls' = [calls EXCEPT !.handleAnalyzeClick = @ + 1,
                                          !.scrapeCartItems = @ + 1,
                                          !.sendMessage = @ + 1]
      /\ timers' = timers (+) SetToBag({Timer("resetButton", ResetDelay)})
                          (+) SetToBag({Timer("removeNotification",
                                              NotificationDelay)})
      /\ lastEvent' = PageEvent("click", items)
      /\ UNCHANGED << session, badgeText, badgeColor, tasks, location, cs >>

\* The user clicks the button (a disabled button gets no click event).
Click ==
  /\ calls.handleAnalyzeClick < MaxClicks
  /\ \E button \in DOMAIN document.buttons :
       /\ ~ document.buttons[button].disabled
       /\ handleAnalyzeClick(button)

\* The callback of the `finally` block: the button is enabled again.
ResetTimerFires ==
  /\ BagIn(Timer("resetButton", ResetDelay), timers)
  /\ \E button \in DOMAIN document.buttons :
       /\ document.buttons[button].disabled
       /\ document' = [document EXCEPT !.buttons[button].disabled = FALSE]
  /\ timers' = timers (-) SetToBag({Timer("resetButton", ResetDelay)})
  /\ lastEvent' = PageEvent("resetButton", "")
  /\ UNCHANGED << session, badgeText, badgeColor, tasks, location, cs, outbox,
                  calls >>

\* The callback of showNotification: the oldest notification is removed.
NotificationExpires ==
  /\ BagIn(Timer("removeNotification", NotificationDelay), timers)
  /\ document.notifications # << >>
  /\ document' = [document EXCEPT !.notifications = Tail(@)]
  /\ timers' = timers (-) SetToBag({Timer("removeNotification",
                                          NotificationDelay)})
  /\ lastEvent' = PageEvent("removeNotification", "")
  /\ UNCHANGED << session, badgeText, badgeColor, tasks, location, cs, outbox,
                  calls >>

\* ------------------------------------------------------- the page's pipeline
\* The pages the content script is loaded in: cart pages of two retailers,
\* a retailer's page that is no cart page, and a page of no retailer.
PageLocations ==
  {[hostname |-> "www.amazon.in", pathname |-> "/gp/cart/view.html"],
   [hostname |-> "www.walmart.com", pathname |-> "/cart"],
   [hostname |-> "www.amazon.in", pathname |-> "/"],
   [hostname |-> "www.example.com", pathname |-> "/cart"]}

\* What the page's own scripts render: which of the six target selectors
\* match, and the cart rows.
RenderedDocuments ==
  {[BlankDocument EXCEPT !.body = TRUE, !.targets = targets, !.rows = rows] :
     targets \in {{}, {6}, {2, 4}},
     rows \in {<< >>, << Row(TRUE, "Gift Card", TRUE, "Free") >>,
               << SonyRow, Row(TRUE, "Charger", FALSE, ""),
                  Row(TRUE, "USB-C Cable", TRUE, "$ 1,299.50") >>}}

\* The content script is constructed in a page that has its body already or
\* gets it later.
InitPage ==
  /\ InitBackground
  /\ location \in PageLocations
  /\ document \in {BlankDocument} \cup RenderedDocuments
  /\ cs = Constructed
  /\ timers = EmptyBag
  /\ outbox = << >>
  /\ calls = NoCalls

\* The page's scripts put the body and the cart into the document.
PageRenders ==
  /\ ~ document.body
  /\ document' \in RenderedDocuments
  /\ lastEvent' = PageEvent("render", "")
  /\ UNCHANGED << session, badgeText, badgeColor, tasks, location, cs, timers,
                  outbox, calls >>

\* The browser delivers the page's oldest message to the service worker.
Deliver ==
  /\ outbox # << >>
  /\ OnAnalyzeCartMessage(Head(outbox).payload, PageTab)
  /\ outbox' = Tail(outbox)
  /\ UNCHANGED << location, document, cs, timers, calls >>

NextPage ==
  \/ init
  \/ PageRenders
  \/ RetryTimerFires
  \/ Click
  \/ ResetTimerFires
  \/ NotificationExpires
  \/ Deliver
  \/ FetchSettles
  \/ JsonSettles

\* Timer callbacks do run.
SpecPage == InitPage /\ [][NextPage]_vars /\ WF_vars(RetryTimerFires)

\* --------------------------------- waitForPageAndInject called once more
\* How often waitForPageAndInject is called on top of init's call and the
\* timer's calls.
MaxSchedules == 2

\* this.waitForPageAndInject() called again on the initialized instance.
Reschedule ==
  /\ cs.isInitialized
  /\ calls.rescheduled < MaxSchedules
  /\ Scheduled(waitForPageAndInject(cs, document, timers), "reschedule",
               [calls EXCEPT !.rescheduled = @ + 1])
  /\ UNCHANGED << session, badgeText, badgeColor, tasks, location, outbox >>

NextInject ==
  \/ init
  \/ PageRenders
  \/ RetryTimerFires
  \/ Reschedule

SpecInject == InitPage /\ [][NextInject]_vars

\* ------------------------------------------- detectPlatform on its own
\* Hostnames and paths detectPlatform is applied to: the six retailers, a
\* page of no retailer, and hostnames holding the tokens of two retailers.
IdentifyHostnames ==
  {"www.amazon.in", "www.amazon.com", "www.flipkart.com", "www.bigbasket.com",
   "www.swiggy.com", "www.walmart.com", "www.target.com", "www.example.com",
   "amazon.flipkart.com", "target.walmart.com"}

IdentifyPaths ==
  {"/", "/gp/cart/view.html", "/cart", "/viewcart", "/basket", "/instamart",
   "/instamart/cart", "/checkout"}

InitIdentify ==
  /\ InitBackground
  /\ location \in [hostname : IdentifyHostnames, pathname : IdentifyPaths]
  /\ document = BlankDocument
  /\ cs = Constructed
  /\ timers = EmptyBag
  /\ outbox = << >>
  /\ calls = NoCalls

\* this.detectPlatform() on a freshly constructed instance.
Identify ==
  /\ lastEvent.type = "start"
  /\ cs' = [cs EXCEPT
              !.currentPlatform = detectPlatform(cs.currentPlatform, location)]
  /\ lastEvent' = PageEvent("detectPlatform", "")
  /\ UNCHANGED << session, badgeText, badgeColor, tasks, location, document,
                  timers, outbox, calls >>

NextIdentify == Identify

SpecIdentify == InitIdentify /\ [][NextIdentify]_vars

\* ------------------------------------------ scrapeCartItems on its own
\* Longest row sequence of a scraped page.
MaxRows == 3

\* The rows of the scraped pages: well-formed rows with rupee and dollar
\* prices, rows with a missing element, a blank title, and price texts that
\* are no number, zero, negative or not finite, and a row whose processing
\* throws.
RowKinds ==
  {SonyRow,
   Row(TRUE, "USB-C Cable", TRUE, "$ 1,299.50"),
   Row(TRUE, "Gift Card", TRUE, "Free"),
   Row(TRUE, "Sample Sachet", TRUE, "$0.00"),
   Row(TRUE, "Coupon", TRUE, "-$5.00"),
   Row(TRUE, "  ", TRUE, "$10"),
   Row(FALSE, "", TRUE, "$10"),
   Row(TRUE, "Charger", FALSE, ""),
   Row(TRUE, "Lifetime Plan", TRUE, "Infinity"),
   ThrowingRow(Row(TRUE, "Warranty", TRUE, "$49"))}

BoundedSeq(S, n) == UNION {[1 .. k -> S] : k \in 0 .. n}

ExtractLocations ==
  {[hostname |-> "www.amazon.in", pathname |-> "/gp/cart/view.html"],
   [hostname |-> "www.walmart.com", pathname |-> "/cart"]}

\* A cart page of a supported retailer after init().
InitExtract ==
  /\ InitBackground
  /\ location \in ExtractLocations
  /\ \E rows \in BoundedSeq(RowKinds, MaxRows) :
       document = [BlankDocument EXCEPT !.body = TRUE, !.rows = rows]
  /\ cs = [Constructed EXCEPT
             !.currentPlatform = detectPlatform(Null, location),
             !.isInitialized = TRUE]
  /\ timers = EmptyBag
  /\ outbox = << >>
  /\ calls = NoCalls

\* this.scrapeCartItems()
Extract ==
  /\ lastEvent.type = "start"
  /\ lastEvent' = PageEvent("scrapeCartItems",
                    scrapeCartItems(cs.currentPlatform, document.rows,
                                    location.hostname))
  /\ calls' = [calls EXCEPT !.scrapeCartItems = @ + 1]
  /\ UNCHANGED << session, badgeText, badgeColor, tasks, location, document,
                  cs, timers, outbox >>

NextExtract == Extract

SpecExtract == InitExtract /\ [][NextExtract]_vars

TypeOK ==
  /\ DOMAIN loadingStates \subseteq Tabs
  /\ \A t \in DOMAIN loadingStates : loadingStates[t] \in {JsBool(TRUE), JsBool(FALSE)}
  /\ DOMAIN analysisResults \subseteq Tabs
  /\ DOMAIN analysisErrors \subseteq Tabs

\* ------------------------------------------------------ session vocabulary
\* The in-flight marker, the stored result and the stored error of a session.
Loading(t) == Truthy(MapGet(loadingStates, t))
HasResult(t) == t \in DOMAIN analysisResults
HasError(t) == t \in DOMAIN analysisErrors

\* The suspended invocations (network calls outstanding) of a session.
TasksOf(t) == {k \in BagToSet(tasks) : k.tabId = t}
RECURSIVE Copies(_, _)
Copies(bag, S) ==
  IF S = {} THEN 0
  ELSE LET k == CHOOSE x \in S : TRUE IN CopiesIn(k, bag) + Copies(bag, S \ {k})
Outstanding(t) == Copies(tasks, TasksOf(t))

\* The step is the handling of an event of the given type for tab t.
IsEvent(type, t) == lastEvent'.type = type /\ lastEvent'.tabId = t

\* The step ends the suspended invocation `task`.
Ends(task) == tasks' = tasks (-) SetToBag({task})

\* What a session looks like from the three tables, entry by entry.
Entries(t) ==
  << t \in DOMAIN loadingStates, MapGet(loadingStates, t),
     t \in DOMAIN analysisResults, MapGet(analysisResults, t),
     t \in DOMAIN analysisErrors, MapGet(analysisErrors, t) >>

NonEmptyText(v) == v.type = "string" /\ Len(v.str) > 0

\* ------------------------------------------------------------------ claims

\* C1: at most one network call of a session is outstanding at any time, and
\* an ANALYZE_CART event for a session that is Requesting issues no call.
C1_AtMostOneInFlight ==
  /\ [](\A t \in Tabs : Outstanding(t) <= 1)
  /\ [][\A t \in Tabs :
          (Loading(t) /\ IsEvent("ANALYZE_CART", t)) => tasks' = tasks]_vars

\* An ANALYZE_CART event arrived for a session whose call had already moved on
\* to reading the body: the session is Requesting, with its one call.
C1_Witness ==
  \E t \in Tabs :
    /\ lastEvent.type = "ANALYZE_CART" /\ lastEvent.tabId = t
    /\ lastEvent.before.isLoading
    /\ Loading(t) /\ Outstanding(t) = 1
    /\ \E k \in TasksOf(t) : k.pc = "json"

\* C2: when the call of a Requesting session resolves 2xx with a parseable
\* body, one step stores the parsed body as the result, leaves the error
\* absent, clears the in-flight marker and sets the success signal; the
\* snapshot then reports isLoading false, error absent and that result.
C2_SuccessCompletes ==
  [][\A task \in BagToSet(tasks) :
       (Loading(task.tabId) /\ task.pc = "json" /\ task.body.json /\ Ends(task))
       => /\ MapGet(analysisResults, task.tabId)'
               = JsObject([totalSavings |-> task.body.totalSavings])
          /\ ~ HasError(task.tabId)'
          /\ ~ Loading(task.tabId)'
          /\ badgeText'[task.tabId] = BadgeSuccess
          /\ querySession(task.tabId)'
               = [isLoading |-> FALSE,
                  result |-> JsObject([totalSavings |-> task.body.totalSavings]),
                  error |-> Undefined]]_vars

\* A query made after the session completed reports totalSavings 4000.
C2_Witness ==
  \E t \in Tabs :
    /\ lastEvent.type = "GET_ANALYSIS_RESULT" /\ lastEvent.tabId = t
    /\ lastEvent.detail = [isLoading |-> FALSE,
                           result |-> JsObject([totalSavings |-> 4000]),
                           error |-> Undefined]
    /\ badgeText[t] = BadgeSuccess

\* C3: when the call of a Requesting session fails (rejected fetch, non-2xx
\* status, unparseable body), one step stores a non-empty error message,
\* leaves the result absent, clears the in-flight marker and sets the error
\* signal; the snapshot then reports isLoading false, result absent and that
\* error.
C3_FailureFails ==
  [][\A task \in BagToSet(tasks) :
       (/\ Loading(task.tabId)
        /\ Ends(task)
        /\ task.pc = "fetch" \/ (task.pc = "json" /\ ~ task.body.json))
       => /\ HasError(task.tabId)'
          /\ NonEmptyText(MapGet(analysisErrors, task.tabId))'
          /\ ~ HasResult(task.tabId)'
          /\ ~ Loading(task.tabId)'
          /\ badgeText'[task.tabId] = BadgeError
          /\ querySession(task.tabId)'
               = [isLoading |-> FALSE, result |-> Undefined,
                  error |-> MapGet(analysisErrors, task.tabId)']]_vars

\* A query made after an HTTP 500 reports the failure.
C3_Witness ==
  \E t \in Tabs :
    /\ lastEvent.type = "GET_ANALYSIS_RESULT" /\ lastEvent.tabId = t
    /\ lastEvent.detail
         = [isLoading |-> FALSE, result |-> Undefined,
            error |-> JsString(
              "API responded with status: 500 - Internal Server Error")]
    /\ badgeText[t] = BadgeError

\* C4: a page-navigation-completed event of a session sets its visual signal
\* to none and leaves its in-flight marker, result and error unchanged, in
\* whatever state the session is; the snapshot is the same as before.
C4_NavigationClearsOnlySignal ==
  [][\A t \in Tabs :
       (IsEvent("onUpdated", t) /\ lastEvent'.detail = "complete")
       => /\ badgeText'[t] = BadgeNone
          /\ Entries(t)' = Entries(t)
          /\ querySession(t)' = querySession(t)]_vars

\* A completed session whose success signal a navigation has cleared: the
\* result is still stored.
C4_Witness ==
  \E t \in Tabs :
    /\ lastEvent.type = "onUpdated" /\ lastEvent.tabId = t
    /\ lastEvent.detail = "complete"
    /\ badgeText[t] = BadgeNone /\ badgeColor[t] = ColorSuccess
    /\ querySession(t).result = JsObject([totalSavings |-> 4000])
    /\ querySession(t) = lastEvent.before

\* C5: every terminal transition clears the in-flight marker, and the next
\* ANALYZE_CART event of a Completed or Failed session is accepted: the
\* session is Requesting again and exactly one new call is issued.
C5_TerminalClearsMarker ==
  [][/\ \A task \in BagToSet(tasks) :
          (Ends(task) /\ Outstanding(task.tabId) = 1) => ~ Loading(task.tabId)'
     /\ \A t \in Tabs :
          (/\ HasResult(t) \/ HasError(t)
           /\ Outstanding(t) = 0
           /\ IsEvent("ANALYZE_CART", t))
          => /\ Loading(t)'
             /\ Outstanding(t)' = 1
             /\ \E k \in TasksOf(t)' : k.pc = "fetch"]_vars

\* A request accepted for a session that was Completed or Failed.
C5_Witness ==
  \E t \in Tabs :
    /\ lastEvent.type = "ANALYZE_CART" /\ lastEvent.tabId = t
    /\ ~ lastEvent.before.isLoading
    /\ lastEvent.before.result # Undefined \/ lastEvent.before.error # Undefined
    /\ Loading(t) /\ Outstanding(t) = 1

\* C6: the prior result and error of a Completed or Failed session are
\* cleared in the step that accepts a new request and in no earlier step:
\* they change only in that step, that step leaves both absent, and a query
\* answered while the request is in flight reports both absent.
C6_ClearedWhenRequestStarts ==
  [][\A t \in Tabs :
       /\ (/\ HasResult(t) \/ HasError(t)
           /\ << MapGet(analysisResults, t), MapGet(analysisErrors, t) >>'
                # << MapGet(analysisResults, t), MapGet(analysisErrors, t) >>)
          => (IsEvent("ANALYZE_CART", t) /\ ~ Loading(t))
       /\ (IsEvent("ANALYZE_CART", t) /\ ~ Loading(t))
          => (Loading(t)' /\ ~ HasResult(t)' /\ ~ HasError(t)')
       /\ (IsEvent("GET_ANALYSIS_RESULT", t) /\ Loading(t))
          => /\ lastEvent'.detail.result = Undefined
             /\ lastEvent'.detail.error = Undefined]_vars

\* A request accepted for a Failed session: the error was still reported when
\* the request arrived, and the snapshot now holds neither result nor error.
C6_Witness ==
  \E t \in Tabs :
    /\ lastEvent.type = "ANALYZE_CART" /\ lastEvent.tabId = t
    /\ ~ lastEvent.before.isLoading
    /\ NonEmptyText(lastEvent.before.error)
    /\ querySession(t)
         = [isLoading |-> TRUE, result |-> Undefined, error |-> Undefined]

\* C7: no torn snapshot: whenever a snapshot (computed in any state, or
\* delivered to the popup) has isLoading true, its result and error are
\* absent; a result appears only in a step in which isLoading turns false.
C7_NoTornSnapshot ==
  /\ [](\A t \in Tabs :
          querySession(t).isLoading
          => /\ querySession(t).result = Undefined
             /\ querySession(t).error = Undefined)
  /\ []((lastEvent.type = "GET_ANALYSIS_RESULT" /\ lastEvent.detail.isLoading)
          => /\ lastEvent.detail.result = Undefined
             /\ lastEvent.detail.error = Undefined)
  /\ [][\A t \in Tabs :
          (~ HasResult(t) /\ HasResult(t)') => (Loading(t) /\ ~ Loading(t)')]_vars

\* A query answered between the arrival of the response and the parsing of
\* its body.
C7_Witness ==
  \E t \in Tabs :
    /\ lastEvent.type = "GET_ANALYSIS_RESULT" /\ lastEvent.tabId = t
    /\ lastEvent.detail.isLoading
    /\ \E k \in TasksOf(t) : k.pc = "json" /\ k.body.json

\* C8: answering GET_ANALYSIS_RESULT is a pure read: no in-flight marker,
\* result or error changes, no session entry is created, no visual signal
\* changes and no network call is issued.
C8_QueryIsPureRead ==
  [][lastEvent'.type = "GET_ANALYSIS_RESULT"
       => UNCHANGED << loadingStates, analysisResults, analysisErrors,
                       badgeText, badgeColor, tasks >>]_vars

\* A query answered for a tab that has no session entry, while another
\* session is Requesting.
C8_Witness ==
  \E t \in Tabs :
    /\ lastEvent.type = "GET_ANALYSIS_RESULT" /\ lastEvent.tabId = t
    /\ t \notin (DOMAIN loadingStates \cup DOMAIN analysisResults
                   \cup DOMAIN analysisErrors)
    /\ \E u \in Tabs : Loading(u) /\ Outstanding(u) = 1

NoSessionSnapshot == [isLoading |-> FALSE, result |-> Undefined, error |-> Undefined]

\* C9: a tab for which no request was ever accepted (a loading entry appears
\* only when a request is accepted, and is never removed) has the snapshot
\* isLoading false, result absent, error absent, and that is what a query
\* for it is answered with.
C9_UnknownSessionSnapshot ==
  /\ [](\A t \in Tabs :
          t \notin DOMAIN loadingStates
          => /\ querySession(t) = NoSessionSnapshot
             /\ (lastEvent.type = "GET_ANALYSIS_RESULT" /\ lastEvent.tabId = t)
                => lastEvent.detail = NoSessionSnapshot)
  /\ [][\A t \in Tabs :
          /\ (t \notin DOMAIN loadingStates /\ t \in DOMAIN loadingStates')
             => IsEvent("ANALYZE_CART", t)
          /\ (IsEvent("ANALYZE_CART", t) /\ ~ Loading(t))
             => t \in DOMAIN loadingStates'
          /\ t \in DOMAIN loadingStates => t \in DOMAIN loadingStates']_vars

\* A query answered for a tab without a session while another tab holds a
\* result.
C9_Witness ==
  \E t \in Tabs :
    /\ lastEvent.type = "GET_ANALYSIS_RESULT" /\ lastEvent.tabId = t
    /\ t \notin DOMAIN loadingStates
    /\ lastEvent.detail = NoSessionSnapshot
    /\ \E u \in Tabs : HasResult(u)

\* C10: an event of one session leaves the in-flight marker, result, error
\* and visual signal of every other session unchanged.
C10_SessionIsolation ==
  [][\A b \in Tabs :
       lastEvent'.tabId # b
       => /\ Entries(b)' = Entries(b)
          /\ badgeText'[b] = badgeText[b]
          /\ badgeColor'[b] = badgeColor[b]
          /\ TasksOf(b)' = TasksOf(b)]_vars

\* The call of one session has just failed while another session is still
\* Requesting, with its call and its in-progress signal.
C10_Witness ==
  \E a \in Tabs, b \in Tabs :
    /\ a # b
    /\ lastEvent.type = "fetchSettled" /\ lastEvent.tabId = a
    /\ HasError(a) /\ ~ Loading(a)
    /\ Loading(b) /\ Outstanding(b) = 1 /\ badgeText[b] = BadgeLoading


C19_RequestWhileRequestingIgnored ==
  [][\A t \in Tabs :
       (Loading(t) /\ IsEvent("ANALYZE_CART", t))
       => /\ Entries(t)' = Entries(t)
          /\ querySession(t)' = querySession(t)
          /\ tasks' = tasks
          /\ Loading(t)' /\ Outstanding(t)' = 1]_vars

\* An ANALYZE_CART event found its session Requesting and left the snapshot
\* as it was, with the call still waiting for the network.
C19_Witness ==
  \E t \in Tabs :
    /\ lastEvent.type = "ANALYZE_CART" /\ lastEvent.tabId = t
    /\ lastEvent.before.isLoading
    /\ querySession(t) = lastEvent.before
    /\ \E k \in TasksOf(t) : k.pc = "fetch"
    /\ Outstanding(t) = 1

\* C20: the visual signal of a session changes only when a request is
\* accepted (to in-progress), on Completed (to success), on Failed (to error)
\* and on page-navigation-completed (to none); an ANALYZE_CART event that is
\* ignored because the session is Requesting does not change it.
C20_SignalOnlyAtTransitions ==
  [][\A t \in Tabs :
       /\ badgeText'[t] # badgeText[t]
          => \/ /\ IsEvent("ANALYZE_CART", t) /\ ~ Loading(t)
                /\ badgeText'[t] = BadgeLoading
             \/ /\ Loading(t) /\ ~ Loading(t)' /\ HasResult(t)'
                /\ badgeText'[t] = BadgeSuccess
             \/ /\ Loading(t) /\ ~ Loading(t)' /\ HasError(t)'
                /\ badgeText'[t] = BadgeError
             \/ /\ IsEvent("onUpdated", t) /\ lastEvent'.detail = "complete"
                /\ badgeText'[t] = BadgeNone
       /\ (IsEvent("ANALYZE_CART", t) /\ Loading(t))
          => badgeText'[t] = badgeText[t]]_vars


\* The adapters whose match rule holds for a page: the hostname contains the
\* retailer token and the url contains the cart-path token.
Matching(loc) ==
  {i \in DOMAIN Adapters :
     Includes(loc.hostname, Adapters[i].token) /\ CartPath(Adapters[i], Href(loc))}

\* C18: identify returns the first adapter in registration order whose match
\* rule (hostname contains the retailer token and url contains the cart-path
\* token) holds, and none when no rule holds, for every url/hostname pair.
C18_FirstMatchingAdapter ==
  lastEvent.type = "detectPlatform"
  => cs.currentPlatform =
       IF Matching(location) = {} THEN Null
       ELSE Adapters[First(Matching(location))].platform


\* A well-formed row: title element and price element present, a title that
\* is not empty after trimming and a price that parses to more than zero.
WellFormed(row) ==
  /\ ~ Throws(row)
  /\ row.titleElement /\ row.priceElement
  /\ TitleOf(row) # ""
  /\ ~ isNaN(PriceOf(row)) /\ GreaterThanZero(PriceOf(row))

\* C16: extract returns exactly one item per well-formed row, in document
\* order: N well-formed rows give N items, the i-th item having the title
\* and price of the i-th well-formed row; rows with identical titles are
\* neither deduplicated nor merged.
C16_OneItemPerWellFormedRow ==
  lastEvent.type = "scrapeCartItems"
  => LET items == lastEvent.detail
         wellFormed == SelectSeq(document.rows, WellFormed)
     IN  /\ Len(items) = Len(wellFormed)
         /\ \A i \in DOMAIN items :
              /\ items[i].productTitle = TitleOf(wellFormed[i])
              /\ items[i].price = PriceOf(wellFormed[i])

\* Three rows were scraped, the first and the last well-formed with the same
\* title and a malformed one between them: two items with that title.
C16_Witness ==
  /\ lastEvent.type = "scrapeCartItems"
  /\ Len(document.rows) = 3
  /\ WellFormed(document.rows[1]) /\ ~ WellFormed(document.rows[2])
  /\ document.rows[3] = document.rows[1]
  /\ Len(lastEvent.detail) = 2
  /\ lastEvent.detail[1].productTitle = lastEvent.detail[2].productTitle

\* C17: every item extract returns has a non-empty productTitle, a finite
\* price greater than zero and quantity 1; a row whose price text does not
\* parse to a finite value greater than zero, or whose title is empty after
\* trimming, produces no item.
C17_CartItemInvariant ==
  lastEvent.type = "scrapeCartItems"
  => LET items == lastEvent.detail
         valid == SelectSeq(document.rows,
                    LAMBDA row : /\ WellFormed(row)
                                 /\ PriceOf(row).kind = "finite")
     IN  /\ \A i \in DOMAIN items :
              /\ items[i].productTitle # ""
              /\ items[i].price.kind = "finite"
              /\ GreaterThanZero(items[i].price)
              /\ items[i].quantity = 1
         /\ Len(items) = Len(valid)


\* C12: a click whose extraction yields zero items sends no ANALYZE_CART
\* message (nothing joins the outgoing messages, sendMessage is not called),
\* changes no session state and starts no network call, and shows one more
\* notification, of the error type.
C12_EmptyCartSendsNothing ==
  [][(lastEvent'.type = "click"
      /\ calls'.handleAnalyzeClick = calls.handleAnalyzeClick + 1
      /\ lastEvent'.detail = << >>)
     => /\ outbox' = outbox
        /\ calls'.sendMessage = calls.sendMessage
        /\ UNCHANGED << session, tasks, badgeText, badgeColor >>
        /\ Len(document'.notifications) = Len(document.notifications) + 1
        /\ document'.notifications[Len(document'.notifications)].type = "error"
    ]_vars

\* The button of a cart that holds only a row without a price was clicked:
\* nothing was sent and the error notification is on the page.
C12_Witness ==
  /\ lastEvent.type = "click" /\ lastEvent.detail = << >>
  /\ document.rows # << >>
  /\ calls.sendMessage = 0 /\ outbox = << >> /\ tasks = EmptyBag
  /\ document.notifications = << Notification("No items found in cart", "error") >>

\* C13: on a page no adapter matches, the content script does nothing: no
\* injection attempt and no retry timer, no button in the page, no
\* extraction, no message sent, and no session touched.
C13_UnsupportedPageNoOp ==
  Matching(location) = {}
  => /\ calls.tryInjectButton = 0 /\ timers = EmptyBag
     /\ cs.retryCount = 0 /\ ~ cs.isInitialized
     /\ document.buttons = << >> /\ document.notifications = << >>
     /\ calls.handleAnalyzeClick = 0 /\ calls.scrapeCartItems = 0
     /\ calls.sendMessage = 0 /\ outbox = << >>
     /\ tasks = EmptyBag /\ loadingStates = EmptyMap

\* init has run on a rendered page of no retailer that has a cart path and
\* an element the target selectors match.
C13_Witness ==
  /\ Matching(location) = {}
  /\ calls.init = 1 /\ lastEvent.type = "init"
  /\ lastEvent.detail = "unsupported"
  /\ location.pathname = "/cart"
  /\ document.body /\ document.targets # {}

\* C14: the page never holds more than one button, and an injection attempt
\* made when the button exists changes nothing in the document, reports
\* success and sets no timer.
C14_InjectionIdempotent ==
  /\ [](Len(document.buttons) <= 1)
  /\ [][(document.buttons # << >>
         /\ calls'.tryInjectButton = calls.tryInjectButton + 1)
        => /\ document' = document
           /\ lastEvent'.detail = "injected"
           /\ cs' = cs
           /\ CopiesIn(RetryTimer, timers') <= CopiesIn(RetryTimer, timers)
       ]_vars

\* A retry timer set by a failed attempt fired after a later call had placed
\* the button: the third attempt reported success and the page has one
\* button.
C14_Witness ==
  /\ lastEvent.type = "retryTimer" /\ lastEvent.detail = "injected"
  /\ calls.tryInjectButton = 3 /\ calls.rescheduled = 1
  /\ cs.retryCount = 1
  /\ Len(document.buttons) = 1

\* C15: a page load sees at most 5 injection attempts.  An attempt is made
\* by init or by the retry timer (set with the fixed delay), only while
\* fewer than 5 attempts have failed; a successful attempt leaves no retry
\* timer, a failed one counts and sets one.  Once 5 attempts have failed no
\* attempt is made, no timer is set and nothing is shown; while there is no
\* button there is no notification; and the retry timers come to an end.
C15_BoundedRetry ==
  /\ [](/\ calls.tryInjectButton <= maxRetries
        /\ cs.retryCount <= maxRetries
        /\ CopiesIn(RetryTimer, timers) <= 1
        /\ (document.buttons # << >> => ~ BagIn(RetryTimer, timers))
        /\ (document.buttons = << >> => document.notifications = << >>))
  /\ [][/\ calls'.tryInjectButton # calls.tryInjectButton
           => /\ calls'.tryInjectButton = calls.tryInjectButton + 1
              /\ cs.retryCount < maxRetries
              /\ \/ lastEvent'.type = "init"
                 \/ /\ lastEvent'.type = "retryTimer"
                    /\ BagIn(Timer("waitForPageAndInject", 1000), timers)
              /\ IF document'.buttons # << >>
                   THEN /\ ~ BagIn(RetryTimer, timers')
                        /\ cs'.retryCount = cs.retryCount
                   ELSE /\ BagIn(RetryTimer, timers')
                        /\ cs'.retryCount = cs.retryCount + 1
        /\ cs.retryCount = maxRetries
           => /\ calls'.tryInjectButton = calls.tryInjectButton
              /\ CopiesIn(RetryTimer, timers') <= CopiesIn(RetryTimer, timers)
              /\ document'.buttons = << >>
              /\ document'.notifications = << >>
       ]_vars
  /\ <>[](~ BagIn(RetryTimer, timers))

\* Five attempts failed on a page without a body, the last timer found the
\* budget spent, and the page rendered afterwards: no button, no timer, no
\* notification.
C15_Witness ==
  /\ cs.retryCount = maxRetries /\ calls.tryInjectButton = maxRetries
  /\ timers = EmptyBag
  /\ document.body /\ document.buttons = << >>
  /\ document.notifications = << >>


\* The state of a session as seen through the three tables.
SessionState(t) ==
  IF Loading(t) THEN "Requesting"
  ELSE IF HasResult(t) THEN "Completed"
  ELSE IF HasError(t) THEN "Failed"
  ELSE "Idle"

\* C21: a session changes state only from Idle to Requesting, from
\* Requesting to Completed or Failed, and from Completed or Failed to
\* Requesting; it starts Idle and never returns to Idle.
C21_SessionTransitions ==
  /\ \A t \in Tabs : SessionState(t) = "Idle"
  /\ [][\A t \in Tabs :
          SessionState(t)' # SessionState(t)
          => << SessionState(t), SessionState(t)' >>
               \in {<< "Idle", "Requesting" >>,
                    << "Requesting", "Completed" >>,
                    << "Requesting", "Failed" >>,
                    << "Completed", "Requesting" >>,
                    << "Failed", "Requesting" >>}]_vars

\* A Completed session has just gone back to Requesting on a new request,
\* while another session is Failed.
C21_Witness ==
  \E t \in Tabs :
    /\ lastEvent.type = "ANALYZE_CART" /\ lastEvent.tabId = t
    /\ ~ lastEvent.before.isLoading
    /\ lastEvent.before.result # Undefined
    /\ SessionState(t) = "Requesting"
    /\ \E u \in Tabs : u # t /\ SessionState(u) = "Failed"


\* C22: the stored result and the stored error of a session stay as they
\* are in every step that is not the acceptance of a new ANALYZE_CART
\* request for that tab: queries, navigations, ignored requests and the
\* events of other sessions neither remove nor replace them.
C22_StoredOutcomePersists ==
  [][\A t \in Tabs :
       ~ (IsEvent("ANALYZE_CART", t) /\ ~ Loading(t))
       => /\ HasResult(t)
             => MapGet(analysisResults, t)' = MapGet(analysisResults, t)
          /\ HasError(t)
             => MapGet(analysisErrors, t)' = MapGet(analysisErrors, t)]_vars

\* A session keeps its result, after a completed navigation of its tab has
\* cleared the signal, while the call of another session has just failed.
C22_Witness ==
  \E t \in Tabs, u \in Tabs :
    /\ t # u
    /\ MapGet(analysisResults, t) = JsObject([totalSavings |-> 1500])
    /\ badgeText[t] = BadgeNone
    /\ lastEvent.type = "jsonSettled" /\ lastEvent.tabId = u
    /\ HasError(u)


\* C23: a session is Requesting exactly while its network call is
\* outstanding: it leaves Requesting only in the step in which the call
\* resolves, and that step takes it to Completed or Failed with the
\* in-flight marker cleared; and, every call resolving, no session stays
\* Requesting for ever (each is again and again not Requesting).
C23_RequestingUntilResolved ==
  /\ [](\A t \in Tabs : Loading(t) <=> Outstanding(t) = 1)
  /\ [][\A t \in Tabs :
          (Loading(t) /\ ~ Loading(t)')
          => /\ IsEvent("fetchSettled", t) \/ IsEvent("jsonSettled", t)
             /\ Outstanding(t)' = 0
             /\ SessionState(t)' \in {"Completed", "Failed"}
             /\ MapGet(loadingStates, t)' = JsBool(FALSE)]_vars
  /\ \A t \in Tabs : []<>(~ Loading(t))

\* The body of a 2xx response has been parsed for a Requesting session: it is
\* Completed, no call is outstanding and the marker is cleared.
C23_Witness ==
  \E t \in Tabs :
    /\ lastEvent.type = "jsonSettled" /\ lastEvent.tabId = t
    /\ lastEvent.before.isLoading
    /\ SessionState(t) = "Completed"
    /\ MapGet(loadingStates, t) = JsBool(FALSE)
    /\ Outstanding(t) = 0


\* C24: an ANALYZE_CART event for a session that is not Requesting is
\* accepted and issues its call whatever the other sessions are doing, and
\* leaves the other sessions and their calls as they are; and whenever two
\* sessions are Requesting, the call of either one can resolve next.
C24_SessionsIndependent ==
  /\ [][\A b \in Tabs :
          (IsEvent("ANALYZE_CART", b) /\ ~ Loading(b))
          => /\ Loading(b)' /\ Outstanding(b)' = 1
             /\ \A a \in Tabs \ {b} :
                  /\ Entries(a)' = Entries(a)
                  /\ TasksOf(a)' = TasksOf(a)
                  /\ Outstanding(a)' = Outstanding(a)]_vars
  /\ [](\A a \in Tabs, b \in Tabs :
          (a # b /\ Loading(a) /\ Loading(b))
          => ENABLED Resolves(a) /\ ENABLED Resolves(b))

\* A request was accepted for one session while another was Requesting: both
\* are Requesting, each with its own call waiting for the network.
C24_Witness ==
  \E a \in Tabs, b \in Tabs :
    /\ a # b
    /\ lastEvent.type = "ANALYZE_CART" /\ lastEvent.tabId = b
    /\ ~ lastEvent.before.isLoading
    /\ Loading(a) /\ Loading(b)
    /\ \E k \in TasksOf(a) : k.pc = "fetch"
    /\ \E k \in TasksOf(b) : k.pc = "fetch"


\* The step makes an injection attempt on a page in which none of the six
\* target selectors matches (and no button exists yet).
AttemptWithoutAnchor ==
  /\ calls'.tryInjectButton = calls.tryInjectButton + 1
  /\ document.targets = {} /\ document.buttons = << >>

\* C25: an injection attempt made when none of the anchor candidates is
\* present is a failed attempt: it places no button and sets the retry timer.
C25_NoAnchorAttemptFails ==
  [][AttemptWithoutAnchor
     => /\ document'.buttons = << >>
        /\ lastEvent'.detail = "retry"
        /\ BagIn(RetryTimer, timers')]_vars

\* C25 as the code has it: an attempt made when no anchor candidate is
\* present fails exactly when the document has no body either.  Failing, it
\* places no button, counts one failed attempt and sets the retry timer with
\* the fixed delay (also after the 5th failure); with a body it succeeds,
\* the button going to the body, and sets no timer.
C25_NoAnchorAttemptFailsWithoutBody ==
  [][AttemptWithoutAnchor
     => IF document.body
          THEN /\ Len(document'.buttons) = 1
               /\ document'.buttons[1].parent = Body
               /\ lastEvent'.detail = "injected"
               /\ timers' = timers (-) SetToBag({RetryTimer})
               /\ cs'.retryCount = cs.retryCount
          ELSE /\ document'.buttons = << >>
               /\ lastEvent'.detail = "retry"
               /\ cs'.retryCount = cs.retryCount + 1
               /\ CopiesIn(Timer("waitForPageAndInject", 1000), timers') = 1
    ]_vars

\* The second attempt on a page that still has no body has failed: no
\* button, two failures counted, the retry timer pending.
C25_Witness ==
  /\ lastEvent.type = "retryTimer" /\ lastEvent.detail = "retry"
  /\ ~ document.body /\ document.targets = {}
  /\ document.buttons = << >>
  /\ cs.retryCount = 2 /\ calls.tryInjectButton = 2
  /\ BagIn(RetryTimer, timers)


\* C26: when an injection attempt places the button, the button's parent is
\* the element found for the first selector, in the order of the targets
\* array, that matches anything in the page, and the body when no selector
\* matches.
C26_InjectionPoint ==
  [][Len(document'.buttons) = Len(document.buttons) + 1
     => LET parent == document'.buttons[Len(document'.buttons)].parent
        IN  IF document.targets = {}
              THEN parent = Body
              ELSE /\ parent \in document.targets
                   /\ \A j \in document.targets : parent <= j]_vars

\* The button was placed on a page where the second and the fourth selector
\* match: it is in the element of the second.
C26_Witness ==
  /\ document.targets = {2, 4}
  /\ Len(document.buttons) = 1
  /\ document.buttons[1].parent = 2
  /\ lastEvent.detail = "injected"


\* A sequence without its i-th element.
Without(seq, i) == SubSeq(seq, 1, i - 1) \o SubSeq(seq, i + 1, Len(seq))

\* C27: a row whose processing throws, or that is skipped for a missing
\* element or invalid data, does not end the extraction: the items are those
\* the page would give without that row, so every well-formed row before and
\* after it yields its item, in the original order.
C27_RowIsolation ==
  lastEvent.type = "scrapeCartItems"
  => /\ \A i \in DOMAIN document.rows :
          ~ WellFormed(document.rows[i])
          => lastEvent.detail
               = scrapeCartItems(cs.currentPlatform,
                                 Without(document.rows, i), location.hostname)
     /\ Len(lastEvent.detail)
          = Cardinality({i \in DOMAIN document.rows :
                           WellFormed(document.rows[i])})

\* A row that throws stood between two well-formed rows of different titles:
\* both gave their items, in page order.
C27_Witness ==
  /\ lastEvent.type = "scrapeCartItems"
  /\ Len(document.rows) = 3
  /\ Throws(document.rows[2])
  /\ Len(lastEvent.detail) = 2
  /\ lastEvent.detail[1].productTitle = TitleOf(document.rows[1])
  /\ lastEvent.detail[2].productTitle = TitleOf(document.rows[3])
  /\ TitleOf(document.rows[1]) # TitleOf(document.rows[3])


\* C28: no session ever holds both a result and an error, and a session
\* whose in-flight marker is set holds neither, so the three tables put each
\* session in exactly one of Idle, Requesting, Completed and Failed.
C28_OneStatePerSession ==
  \A t \in Tabs :
    /\ ~ (HasResult(t) /\ HasError(t))
    /\ Cardinality({s \in {"Requesting", "Completed", "Failed"} :
                      \/ s = "Requesting" /\ Loading(t)
                      \/ s = "Completed" /\ HasResult(t)
                      \/ s = "Failed" /\ HasError(t)}) <= 1

\* A call of a session has just succeeded, so the session is Completed and
\* nothing else, while another session is Requesting and nothing else.
C28_Witness ==
  \E t \in Tabs :
    /\ lastEvent.type = "jsonSettled" /\ lastEvent.tabId = t
    /\ HasResult(t) /\ ~ HasError(t) /\ ~ Loading(t)
    /\ \E u \in Tabs \ {t} :
         /\ Loading(u) /\ ~ HasResult(u) /\ ~ HasError(u)
         /\ badgeText[u] = BadgeLoading


\* C29: a session whose in-flight marker is set has exactly one outstanding
\* network call, whatever the payload of the ANALYZE_CART message was, one
\* without a sourceRetailer included: the marker is never left set with no
\* call in flight to clear it.
C29_MarkerHasCall ==
  \A t \in Tabs : Loading(t) => Outstanding(t) = 1


\* C30: the badge never contradicts the tables: a success badge is shown only
\* for a session that holds a result, an error badge only for one that holds
\* an error, and the in-progress badge only while the in-flight marker is set
\* (no badge may be shown in any state).
C30_SignalAgreesWithState ==
  \A t \in Tabs :
    /\ badgeText[t] = BadgeSuccess => HasResult(t)
    /\ badgeText[t] = BadgeError => HasError(t)
    /\ badgeText[t] = BadgeLoading => Loading(t)

\* One session shows the success badge over its result while the call of
\* another has just failed, which shows the error badge over its error.
C30_Witness ==
  \E t \in Tabs, u \in Tabs :
    /\ badgeText[t] = BadgeSuccess /\ HasResult(t)
    /\ lastEvent.type = "fetchSettled" /\ lastEvent.tabId = u
    /\ badgeText[u] = BadgeError /\ HasError(u)


\* C31: country and currency agree in every request of the content script
\* that analyzeCart has sent on: the source retailer is the page's hostname,
\* the user context is (IN, 560001) when that hostname contains ".in" and
\* (US, 90210) when it does not, never a mixed pair, and every item has the
\* currency INR in the first case and USD in the second.
C31_CountryAndCurrencyAgree ==
  \A task \in BagToSet(tasks) :
    LET payload == task.payload
        india == Includes(payload.sourceRetailer, ".in")
    IN  /\ payload.sourceRetailer = location.hostname
        /\ payload.userContext
             = IF india THEN [country |-> "IN", postalCode |-> "560001"]
                        ELSE [country |-> "US", postalCode |-> "90210"]
        /\ \A i \in DOMAIN payload.items :
             payload.items[i].currency = IF india THEN "INR" ELSE "USD"

\* The request of an amazon.in cart with two items is with the API: its
\* context is (IN, 560001) and both items are priced in INR.
C31_Witness ==
  /\ Includes(location.hostname, ".in")
  /\ \E task \in BagToSet(tasks) :
       /\ task.tabId = PageTab /\ task.pc = "fetch"
       /\ task.payload.userContext.country = "IN"
       /\ task.payload.userContext.postalCode = "560001"
       /\ Len(task.payload.items) = 2
       /\ \A i \in DOMAIN task.payload.items :
            task.payload.items[i].currency = "INR"

====
